---- MODULE Spec2Model ----
(***************************************************************************)
(* Model of Backend/main.py: the ConnectionManager (registry of attached   *)
(* connections per channel, sender table), the channel directory, and the  *)
(* two websocket handlers (/ws/{channel} and /ws/control/{channel}).       *)
(*                                                                         *)
(* Handlers are asyncio coroutines on one event loop: the code between two *)
(* awaits runs atomically.  A handler is therefore always suspended at an  *)
(* await: websocket.receive() (pc = "recv") or a send to some connection   *)
(* (pc = "send", the write in flight being the last entry of sent).  One   *)
(* action resumes a handler and runs it to its next await.                 *)
(***************************************************************************)
EXTENDS Integers, Sequences, FiniteSets, TLC

\* ---------------------------------------------------------------- bounds
NConns == 3
Conns == 1..NConns
\* How many handlers may be suspended in a write at the same time.
MaxBusy == 2

\* Channel names given in the URL path, and names asked for by new_channel.
Paths == {"room1", "room2"}
\* Channel names are interchangeable: the first connection's is fixed.
FirstPath == "room1"
Frames == {"f1", "f2"}

NoConn == 0
NoKey == "-"

\* ------------------------------------------------------- text payloads
\* Control texts.  startswith / split are modelled by table.
ControlTexts == {"start", "stop", "join_channel", "new_channel:jazz",
                 "new_channel:Default", "{\"type\":\"offer\"}", "hello"}

startswith_new_channel(t) == t \in {"new_channel:jazz", "new_channel:Default"}

\* data.split("new_channel:")[1]
split_new_channel(t) ==
    CASE t = "new_channel:jazz" -> "jazz"
      [] t = "new_channel:Default" -> "Default"
      [] OTHER -> ""

\* f"new_channel:{new_channel}"
fmt_new_channel(n) ==
    CASE n = "jazz" -> "new_channel:jazz"
      [] n = "Default" -> "new_channel:Default"
      [] OTHER -> "new_channel:"

\* Texts sent to /ws/{channel}.  json.loads is modelled by the shape of the
\* value it returns: a dict (with or without "type"), another JSON value,
\* or a JSONDecodeError.
SignalTexts == {"{\"type\":\"offer\"}", "{\"type\":\"answer\"}",
                "{\"type\":\"iceCandidate\"}", "{\"type\":\"bye\"}",
                "{\"sdp\":1}", "5", "null", "[1]", "\"hi\"", "start"}

json_loads(t) ==
    CASE t = "{\"type\":\"offer\"}" -> [shape |-> "dict", type |-> "offer"]
      [] t = "{\"type\":\"answer\"}" -> [shape |-> "dict", type |-> "answer"]
      [] t = "{\"type\":\"iceCandidate\"}" -> [shape |-> "dict", type |-> "iceCandidate"]
      [] t = "{\"type\":\"bye\"}" -> [shape |-> "dict", type |-> "bye"]
      [] t = "{\"sdp\":1}" -> [shape |-> "dict", type |-> NoKey]
      [] t = "5" -> [shape |-> "int", type |-> NoKey]
      [] t = "null" -> [shape |-> "None", type |-> NoKey]
      [] t = "[1]" -> [shape |-> "list", type |-> NoKey]
      [] t = "\"hi\"" -> [shape |-> "str", type |-> NoKey]
      [] OTHER -> [shape |-> "JSONDecodeError", type |-> NoKey]

\* What lines 104-114 do with a text: "forward", "drop", or the exception
\* that leaves the inner try ("type" in data raises TypeError on int/None).
signal_dispatch(t) ==
    LET d == json_loads(t) IN
    CASE d.shape = "JSONDecodeError" -> "drop"
      [] d.shape \in {"int", "None"} -> "TypeError"
      [] d.shape \in {"list", "str"} -> "drop"
      [] d.shape = "dict" /\ d.type = NoKey -> "drop"
      [] d.shape = "dict" /\ d.type \in {"iceCandidate", "offer", "answer"} -> "forward"
      [] OTHER -> "drop"

\* ------------------------------------------------- ordered dict helpers
\* active_connections is a Python dict: a sequence of [k, v] entries in
\* insertion order.  channel_senders is a dict used only by key: a function
\* whose domain is its key set.
Keys(d) == {d[i].k : i \in DOMAIN d}
HasKey(d, k) == k \in Keys(d)
IndexOf(d, k) == CHOOSE i \in DOMAIN d : d[i].k = k
Get(d, k) == d[IndexOf(d, k)].v
Put(d, k, v) ==
    IF HasKey(d, k)
    THEN [d EXCEPT ![IndexOf(d, k)] = [k |-> k, v |-> v]]
    ELSE Append(d, [k |-> k, v |-> v])
Del(d, k) ==
    LET p == IndexOf(d, k) IN
    [i \in 1..(Len(d) - 1) |-> IF i < p THEN d[i] ELSE d[i + 1]]

Elems(s) == {s[i] : i \in DOMAIN s}
\* list.remove(x): removes the first occurrence
ListRemove(s, x) ==
    LET p == CHOOSE i \in DOMAIN s : s[i] = x /\ \A j \in 1..(i - 1) : s[j] # x IN
    [i \in 1..(Len(s) - 1) |-> IF i < p THEN s[i] ELSE s[i + 1]]

Pop(f, k) == [x \in (DOMAIN f) \ {k} |-> f[x]]
Set(f, k, v) == [x \in (DOMAIN f) \cup {k} |-> IF x = k THEN v ELSE f[x]]
EmptyMap == [x \in {} |-> NoConn]


\* ------------------------------------------------------------- state
VARIABLES
    active_connections, \* ConnectionManager.active_connections (ordered dict)
    channel_senders,    \* ConnectionManager.channel_senders
    channels,           \* names in the channels table of db_conn
    pc,                 \* per handler: "new", "recv", "send", "closed"
    channel,            \* per handler: its channel argument
    endpoint,           \* per handler: "audio" (/ws/{channel}) or "control"
    mode,               \* per handler: the loop or reply it is suspended in
    it,                 \* per handler: its iterator (list index, dict iterator)
    msg,                \* per handler: the message it is processing, whether it held
                        \* the slot on receiving it, the members its loop started with
    sent,               \* per handler: writes begun for that message, in order
    stable,             \* per handler: registry unchanged since its loop began
    acked,              \* per handler: answered start_ack, not stopped or detached since
    detached,           \* per handler: how many disconnect calls removed it
    transport,          \* per connection: "open", or "closed" once the peer or the
                        \* server has closed it
    raised,             \* the exception the last step propagated out of a handler
    freed,              \* the channel whose sender slot the last step's disconnect cleared
    ignored             \* the input the last step dropped, and whose: "frame",
                        \* "text", "duplicate", "signal" (a signaling message), "other"

vars == <<active_connections, channel_senders, channels, pc, channel, endpoint,
          mode, it, msg, sent, stable, acked, detached, transport, raised, freed,
          ignored>>

NoIt == [i |-> 0, key |-> NoKey, used |-> 0, pos |-> 0, left |-> 0]
NoMsg == [kind |-> "none", data |-> "", held |-> FALSE, snap |-> {}]
NoDrop == [what |-> "none", by |-> NoConn]

\* ------------------------------------------------ ConnectionManager
\* connect, after websocket.accept() has returned
connect(ac, ws, ch) ==
    IF ~HasKey(ac, ch)
    THEN Put(ac, ch, <<ws>>)
    ELSE Put(ac, ch, Append(Get(ac, ch), ws))

\* disconnect without lines 41-42: the sender slot is left as it was
disconnect_keeps_sender(ac, cs, ws, ch) ==
    IF HasKey(ac, ch)
    THEN IF ws \notin Elems(Get(ac, ch))
         THEN [ac |-> ac, cs |-> cs, raised |-> "ValueError",
               removed |-> FALSE, deleted |-> FALSE]
         ELSE LET rest == ListRemove(Get(ac, ch), ws)
                  ac1 == IF rest = <<>> THEN Del(ac, ch) ELSE Put(ac, ch, rest)
              IN [ac |-> ac1, cs |-> cs, raised |-> "none",
                  removed |-> TRUE, deleted |-> (rest = <<>>)]
    ELSE [ac |-> ac, cs |-> cs, raised |-> "none",
          removed |-> FALSE, deleted |-> FALSE]

\* disconnect with lines 41-42 as the else branch of line 39: the sender
\* slot is cleared only while the channel keeps other members
disconnect_clears_unless_last(ac, cs, ws, ch) ==
    IF HasKey(ac, ch)
    THEN IF ws \notin Elems(Get(ac, ch))
         THEN [ac |-> ac, cs |-> cs, raised |-> "ValueError",
               removed |-> FALSE, deleted |-> FALSE]
         ELSE LET rest == ListRemove(Get(ac, ch), ws)
                  ac1 == IF rest = <<>> THEN Del(ac, ch) ELSE Put(ac, ch, rest)
                  cs1 == IF rest # <<>> /\ ch \in DOMAIN cs /\ cs[ch] = ws
                         THEN Pop(cs, ch) ELSE cs
              IN [ac |-> ac1, cs |-> cs1, raised |-> "none",
                  removed |-> TRUE, deleted |-> (rest = <<>>)]
    ELSE [ac |-> ac, cs |-> cs, raised |-> "none",
          removed |-> FALSE, deleted |-> FALSE]

\* disconnect without lines 39-40: an emptied list stays in the dict
disconnect_keeps_empty(ac, cs, ws, ch) ==
    IF HasKey(ac, ch)
    THEN IF ws \notin Elems(Get(ac, ch))
         THEN [ac |-> ac, cs |-> cs, raised |-> "ValueError",
               removed |-> FALSE, deleted |-> FALSE]
         ELSE LET rest == ListRemove(Get(ac, ch), ws)
                  ac1 == Put(ac, ch, rest)
                  cs1 == IF ch \in DOMAIN cs /\ cs[ch] = ws THEN Pop(cs, ch) ELSE cs
              IN [ac |-> ac1, cs |-> cs1, raised |-> "none",
                  removed |-> TRUE, deleted |-> FALSE]
    ELSE [ac |-> ac, cs |-> cs, raised |-> "none",
          removed |-> FALSE, deleted |-> FALSE]

\* disconnect: the registry and sender table after the call, the exception
\* it raises (list.remove of an absent element raises ValueError before the
\* sender table is looked at), and what it did.
disconnect(ac, cs, ws, ch) ==
    IF HasKey(ac, ch)
    THEN IF ws \notin Elems(Get(ac, ch))
         THEN [ac |-> ac, cs |-> cs, raised |-> "ValueError",
               removed |-> FALSE, deleted |-> FALSE]
         ELSE LET rest == ListRemove(Get(ac, ch), ws)
                  ac1 == IF rest = <<>> THEN Del(ac, ch) ELSE Put(ac, ch, rest)
                  cs1 == IF ch \in DOMAIN cs /\ cs[ch] = ws THEN Pop(cs, ch) ELSE cs
              IN [ac |-> ac1, cs |-> cs1, raised |-> "none",
                  removed |-> TRUE, deleted |-> (rest = <<>>)]
    ELSE [ac |-> ac, cs |-> cs, raised |-> "none",
          removed |-> FALSE, deleted |-> FALSE]

\* set_sender without the test of line 56: the last caller takes the slot
set_sender_overwrites(cs, ws, ch) == [cs |-> Set(cs, ch, ws), ret |-> TRUE]

\* set_sender: the sender table after the call and the value returned
set_sender(cs, ws, ch) ==
    IF ch \notin DOMAIN cs
    THEN [cs |-> Set(cs, ch, ws), ret |-> TRUE]
    ELSE [cs |-> cs, ret |-> FALSE]

\* clear_sender without the second half of the test of line 63
clear_sender_any(cs, ws, ch) == IF ch \in DOMAIN cs THEN Pop(cs, ch) ELSE cs

clear_sender(cs, ws, ch) ==
    IF ch \in DOMAIN cs /\ cs[ch] = ws THEN Pop(cs, ch) ELSE cs

\* the test of lines 97 and 162 without its second half
is_sender_any(cs, ws, ch) == ch \in DOMAIN cs

\* the test of lines 97 and 162
is_sender(cs, ws, ch) == ch \in DOMAIN cs /\ cs[ch] = ws


\* ------------------------------------------------------- iteration
\* the loop of lines 47-50 without the test of line 48
list_next_all(lst, i, skip) == IF i < Len(lst) THEN i + 1 ELSE 0

\* A Python list iterator keeps the index of the next element and reads the
\* live list on every step.  i is the number of positions consumed; the
\* result is the position of the next element other than skip, 0 at the end.
list_next(lst, i, skip) ==
    LET rest == {j \in (i + 1)..Len(lst) : lst[j] # skip} IN
    IF rest = {} THEN 0 ELSE CHOOSE j \in rest : \A k \in rest : j <= k

\* A dict iterator (lines 141-142) remembers the size of the dict when it
\* was created (used), its position in the entries (pos) and how many keys
\* it still expects (left); a step on a dict whose size has changed raises
\* RuntimeError.  key is the channel whose list the inner loop is iterating
\* (NoKey: none, or that list has been emptied and dropped from the dict),
\* i its list index.  Hash-table resizing is not modelled.
RECURSIVE dict_next(_, _)
dict_next(ac, t) ==
    IF t.key # NoKey /\ HasKey(ac, t.key) /\ t.i < Len(Get(ac, t.key))
    THEN [kind |-> "send", to |-> Get(ac, t.key)[t.i + 1],
          it |-> [t EXCEPT !.i = t.i + 1]]
    ELSE IF Len(ac) # t.used
         THEN [kind |-> "raise", to |-> NoConn, it |-> t]
         ELSE IF t.pos >= Len(ac)
              THEN [kind |-> "done", to |-> NoConn, it |-> t]
              ELSE IF t.left = 0
                   THEN [kind |-> "raise", to |-> NoConn, it |-> t]
                   ELSE dict_next(ac, [i |-> 0, key |-> ac[t.pos + 1].k,
                                       used |-> t.used, pos |-> t.pos + 1,
                                       left |-> t.left - 1])

dict_iter(ac) == [i |-> 0, key |-> NoKey, used |-> Len(ac), pos |-> 0, left |-> Len(ac)]

\* The next await of handler c in loop md with iterator t.
next_send(ac, c, ch, md, t) ==
    IF md = "announce"
    THEN dict_next(ac, t)
    ELSE IF md = "reply" \/ ~HasKey(ac, ch)
         THEN [kind |-> "done", to |-> NoConn, it |-> t]
         ELSE LET j == list_next(Get(ac, ch), t.i, c) IN
              IF j = 0
              THEN [kind |-> "done", to |-> NoConn, it |-> t]
              ELSE [kind |-> "send", to |-> Get(ac, ch)[j], it |-> [t EXCEPT !.i = j]]

\* What the loop md of handler c writes: data for broadcast, text_data for
\* the signaling forward, the f-strings of lines 143 and 158.
payload(c, md, m) ==
    CASE md = "broadcast" -> [kind |-> "bytes", data |-> m.data]
      [] md = "forward" -> [kind |-> "text", data |-> m.data]
      [] md = "join" -> [kind |-> "text", data |-> "peer_joined:" \o ToString(c)]
      [] md = "announce" -> [kind |-> "text",
                             data |-> fmt_new_channel(split_new_channel(m.data))]
      [] OTHER -> [kind |-> "text", data |-> ""]

write(to, pl) == [to |-> to, kind |-> pl.kind, data |-> pl.data, st |-> "inflight"]

\* the write outside any try: the exception leaves the loop and the handler
send_error_uncaught(md) == "uncaught"

\* Where an exception raised by a write goes: broadcast (lines 49-52) and
\* send_message (lines 68-71) wrap the single write in try/except Exception,
\* so it is caught inside the loop, which goes on.
send_error(md) == "caught"

\* Deleting key k moves the entries after it; the iterators positioned
\* behind it follow, and an inner loop on k's list has nothing left.
it_after_del(t, ac, k) ==
    [t EXCEPT !.pos = IF IndexOf(ac, k) <= t.pos THEN t.pos - 1 ELSE t.pos,
              !.key = IF t.key = k THEN NoKey ELSE t.key]

\* Loops of other handlers that the attach or detach of a member of ch
\* happens under.
in_loop_on(h, ch) ==
    pc[h] = "send" /\ (mode[h] = "announce" \/ (mode[h] # "reply" /\ channel[h] = ch))


\* ------------------------------------------------------ handler steps
Init ==
    /\ active_connections = <<>>
    /\ channel_senders = EmptyMap
    /\ channels = {"Default"}
    /\ pc = [c \in Conns |-> "new"]
    /\ channel = [c \in Conns |-> NoKey]
    /\ endpoint = [c \in Conns |-> NoKey]
    /\ mode = [c \in Conns |-> "idle"]
    /\ it = [c \in Conns |-> NoIt]
    /\ msg = [c \in Conns |-> NoMsg]
    /\ sent = [c \in Conns |-> <<>>]
    /\ stable = [c \in Conns |-> TRUE]
    /\ acked = [c \in Conns |-> FALSE]
    /\ detached = [c \in Conns |-> 0]
    /\ transport = [c \in Conns |-> "open"]
    /\ raised = "none"
    /\ freed = NoKey
    /\ ignored = NoDrop

\* Handler c is suspended in the write that ends s, in loop md at t.
Suspend(c, md, t, m, s) ==
    /\ pc' = [pc EXCEPT ![c] = "send"]
    /\ mode' = [mode EXCEPT ![c] = md]
    /\ it' = [it EXCEPT ![c] = t]
    /\ msg' = [msg EXCEPT ![c] = m]
    /\ sent' = [sent EXCEPT ![c] = s]

\* Handler c is back at `await websocket.receive()`; its locals are dead.
Await(c) ==
    /\ pc' = [pc EXCEPT ![c] = "recv"]
    /\ mode' = [mode EXCEPT ![c] = "idle"]
    /\ it' = [it EXCEPT ![c] = NoIt]
    /\ msg' = [msg EXCEPT ![c] = NoMsg]
    /\ sent' = [sent EXCEPT ![c] = <<>>]
    /\ stable' = [stable EXCEPT ![c] = TRUE]

\* the handlers without their finally clause (lines 117-118, 168-169):
\* only the except WebSocketDisconnect clause calls manager.disconnect
Leave_without_finally(c, how, e) ==
    LET ch == channel[c]
        r0 == [ac |-> active_connections, cs |-> channel_senders, raised |-> "none",
               removed |-> FALSE, deleted |-> FALSE]
        r1 == IF how = "WebSocketDisconnect"
              THEN disconnect(active_connections, channel_senders, c, ch)
              ELSE r0
        r2 == [r1 EXCEPT !.raised = "none", !.removed = FALSE, !.deleted = FALSE]
        out == IF r2.raised # "none" THEN r2.raised
               ELSE IF r1.raised # "none" THEN r1.raised
               ELSE IF how = "error" THEN e ELSE "none"
        n == (IF r1.removed THEN 1 ELSE 0) + (IF r2.removed THEN 1 ELSE 0)
    IN
    /\ active_connections' = r2.ac
    /\ channel_senders' = r2.cs
    /\ pc' = [pc EXCEPT ![c] = "closed"]
    /\ channel' = [channel EXCEPT ![c] = NoKey]
    /\ endpoint' = [endpoint EXCEPT ![c] = NoKey]
    /\ mode' = [mode EXCEPT ![c] = "idle"]
    /\ it' = [h \in Conns |->
                IF h = c THEN NoIt
                ELSE IF mode[h] = "announce" /\ r1.deleted
                     THEN it_after_del(it[h], active_connections, ch)
                     ELSE IF mode[h] = "announce" /\ r2.deleted
                          THEN it_after_del(it[h], r1.ac, ch)
                          ELSE it[h]]
    /\ msg' = [msg EXCEPT ![c] = NoMsg]
    /\ sent' = [sent EXCEPT ![c] = <<>>]
    /\ stable' = [h \in Conns |->
                    IF h = c THEN TRUE
                    ELSE IF n > 0 /\ in_loop_on(h, ch) THEN FALSE ELSE stable[h]]
    /\ acked' = [acked EXCEPT ![c] = IF n > 0 THEN FALSE ELSE @]
    /\ detached' = [detached EXCEPT ![c] = @ + n]
    /\ transport' = [transport EXCEPT ![c] = "closed"]
    /\ raised' = out
    /\ freed' = IF ch \in DOMAIN channel_senders /\ ch \notin DOMAIN r2.cs
                THEN ch ELSE NoKey
    /\ ignored' = NoDrop

\* The handler leaves its loop (lines 115-118, 166-169): on
\* WebSocketDisconnect the except clause calls manager.disconnect and the
\* finally clause calls it again; otherwise (break, or an exception e that
\* is not WebSocketDisconnect) only the finally clause runs.  An exception
\* raised by the finally clause replaces the one being propagated.
Leave(c, how, e) ==
    LET ch == channel[c]
        r1 == disconnect(active_connections, channel_senders, c, ch)
        r2 == IF how = "WebSocketDisconnect"
              THEN disconnect(r1.ac, r1.cs, c, ch)
              ELSE [r1 EXCEPT !.raised = "none", !.removed = FALSE, !.deleted = FALSE]
        out == IF r2.raised # "none" THEN r2.raised
               ELSE IF r1.raised # "none" THEN r1.raised
               ELSE IF how = "error" THEN e ELSE "none"
        n == (IF r1.removed THEN 1 ELSE 0) + (IF r2.removed THEN 1 ELSE 0)
    IN
    /\ active_connections' = r2.ac
    /\ channel_senders' = r2.cs
    /\ pc' = [pc EXCEPT ![c] = "closed"]
    /\ channel' = [channel EXCEPT ![c] = NoKey]
    /\ endpoint' = [endpoint EXCEPT ![c] = NoKey]
    /\ mode' = [mode EXCEPT ![c] = "idle"]
    /\ it' = [h \in Conns |->
                IF h = c THEN NoIt
                ELSE IF mode[h] = "announce" /\ r1.deleted
                     THEN it_after_del(it[h], active_connections, ch)
                     ELSE IF mode[h] = "announce" /\ r2.deleted
                          THEN it_after_del(it[h], r1.ac, ch)
                          ELSE it[h]]
    /\ msg' = [msg EXCEPT ![c] = NoMsg]
    /\ sent' = [sent EXCEPT ![c] = <<>>]
    /\ stable' = [h \in Conns |->
                    IF h = c THEN TRUE
                    ELSE IF n > 0 /\ in_loop_on(h, ch) THEN FALSE ELSE stable[h]]
    /\ acked' = [acked EXCEPT ![c] = IF n > 0 THEN FALSE ELSE @]
    /\ detached' = [detached EXCEPT ![c] = @ + n]
    /\ transport' = [transport EXCEPT ![c] = "closed"]
    /\ raised' = out
    /\ freed' = IF ch \in DOMAIN channel_senders /\ ch \notin DOMAIN r2.cs
                THEN ch ELSE NoKey
    /\ ignored' = NoDrop

\* raised, freed and ignored describe the last step only.
NoEvent == raised' = "none" /\ freed' = NoKey /\ ignored' = NoDrop

Quiet ==
    /\ UNCHANGED <<active_connections, channel_senders, channel, endpoint,
                   acked, detached, transport>>
    /\ NoEvent

\* Handler c drops its input and goes back to receive().
Drop(c, what) ==
    /\ Await(c)
    /\ UNCHANGED <<active_connections, channel_senders, channel, endpoint,
                   acked, detached, transport>>
    /\ raised' = "none" /\ freed' = NoKey /\ ignored' = [what |-> what, by |-> c]

\* Handler c runs loop md from iterator t, with writes s already begun, to
\* its next await; a RuntimeError of the dict iterator leaves the handler.
Run(c, md, t, m, s) ==
    LET nx == next_send(active_connections, c, channel[c], md, t) IN
    CASE nx.kind = "send" ->
            /\ Suspend(c, md, nx.it, m, Append(s, write(nx.to, payload(c, md, m))))
            /\ UNCHANGED stable
            /\ Quiet
      [] nx.kind = "done" -> Await(c) /\ Quiet
      [] OTHER -> Leave(c, "error", "RuntimeError")

\* manager.connect (lines 84, 122): accept() has returned.  Connection
\* identities are fresh, so they are handed out in order.
Connect(c, ch, ep) ==
    /\ pc[c] = "new"
    /\ \A b \in Conns : b < c => pc[b] # "new"
    /\ c = 1 => ch = FirstPath
    /\ active_connections' = connect(active_connections, c, ch)
    /\ pc' = [pc EXCEPT ![c] = "recv"]
    /\ channel' = [channel EXCEPT ![c] = ch]
    /\ endpoint' = [endpoint EXCEPT ![c] = ep]
    /\ stable' = [h \in Conns |-> IF in_loop_on(h, ch) THEN FALSE ELSE stable[h]]
    /\ NoEvent
    /\ UNCHANGED <<channel_senders, channels, mode, it, msg, sent, acked, detached,
                   transport>>

\* receive() of handler c returns a message.
Ready(c) ==
    /\ pc[c] = "recv" /\ transport[c] = "open"
    /\ Cardinality({h \in Conns : pc[h] = "send"}) < MaxBusy

Msg(c, kind, data) ==
    [kind |-> kind, data |-> data, held |-> is_sender(channel_senders, c, channel[c]),
     snap |-> {}]

\* The connections the loop md of handler c finds when it starts: those of
\* every list of the dict (lines 141-142), or those of its channel's list
\* other than itself (lines 47-48, 108-109, 156-157).
members_at_start(ac, c, ch, md) ==
    IF md = "announce"
    THEN UNION {Elems(ac[i].v) : i \in DOMAIN ac}
    ELSE IF HasKey(ac, ch) THEN Elems(Get(ac, ch)) \ {c} ELSE {}

\* Handler c starts loop md for message m.
Start(c, md, t, m) ==
    Run(c, md, t,
        [m EXCEPT !.snap = members_at_start(active_connections, c, channel[c], md)],
        <<>>)

\* /ws/{channel}, lines 94-101: a binary frame
endpoint_bytes(c, f) ==
    /\ Ready(c) /\ endpoint[c] = "audio"
    /\ IF is_sender(channel_senders, c, channel[c])
       THEN Start(c, "broadcast", NoIt, Msg(c, "bytes", f))
       ELSE Drop(c, "frame")
    /\ UNCHANGED channels

\* /ws/{channel}, lines 102-114: a text
endpoint_text(c, t) ==
    /\ Ready(c) /\ endpoint[c] = "audio"
    /\ CASE signal_dispatch(t) = "forward" ->
                Start(c, "forward", NoIt, Msg(c, "text", t))
         [] signal_dispatch(t) = "drop" -> Drop(c, "text")
         [] OTHER -> Leave(c, "error", signal_dispatch(t))
    /\ UNCHANGED channels

\* /ws/control/{channel}, lines 159-165: a binary frame
control_bytes(c, f) ==
    /\ Ready(c) /\ endpoint[c] = "control"
    /\ IF is_sender(channel_senders, c, channel[c])
       THEN Start(c, "broadcast", NoIt, Msg(c, "bytes", f))
       ELSE Drop(c, "frame")
    /\ UNCHANGED channels

\* the INSERT on a name column without UNIQUE: it never fails
insert_channel_not_unique(chs, n) == [channels |-> chs \cup {n}, raised |-> "none"]

\* INSERT INTO channels (name) and commit (lines 139-140): name is UNIQUE
\* (line 15), so a name already there raises sqlite3.IntegrityError.
insert_channel(chs, n) ==
    IF n \in chs
    THEN [channels |-> chs, raised |-> "IntegrityError"]
    ELSE [channels |-> chs \cup {n}, raised |-> "none"]

\* lines 135-146: new_channel:<name>
control_new_channel(c, t) ==
    /\ Ready(c) /\ endpoint[c] = "control"
    /\ startswith_new_channel(t)
    /\ channels' = insert_channel(channels, split_new_channel(t)).channels
    /\ IF insert_channel(channels, split_new_channel(t)).raised = "IntegrityError"
       THEN \* caught at line 145
            Drop(c, "duplicate")
       ELSE Start(c, "announce", dict_iter(active_connections), Msg(c, "text", t))

Reply(c, m, text) ==
    /\ Suspend(c, "reply", NoIt, m, <<write(c, [kind |-> "text", data |-> text])>>)
    /\ NoEvent
    /\ UNCHANGED <<active_connections, channels, channel, endpoint, stable, detached,
                   transport>>

\* the start branch in both handlers, not only in websocket_control
control_start_any_endpoint(c) ==
    /\ Ready(c)
    /\ LET r == set_sender(channel_senders, c, channel[c]) IN
       /\ channel_senders' = r.cs
       /\ acked' = [acked EXCEPT ![c] = IF r.ret THEN TRUE ELSE @]
       /\ Reply(c, Msg(c, "text", "start"), IF r.ret THEN "start_ack" ELSE "busy")

\* lines 147-151: start
control_start(c) ==
    /\ Ready(c) /\ endpoint[c] = "control"
    /\ LET r == set_sender(channel_senders, c, channel[c]) IN
       /\ channel_senders' = r.cs
       /\ acked' = [acked EXCEPT ![c] = IF r.ret THEN TRUE ELSE @]
       /\ Reply(c, Msg(c, "text", "start"), IF r.ret THEN "start_ack" ELSE "busy")

\* lines 152-154: stop
control_stop(c) ==
    /\ Ready(c) /\ endpoint[c] = "control"
    /\ channel_senders' = clear_sender(channel_senders, c, channel[c])
    /\ acked' = [acked EXCEPT ![c] = FALSE]
    /\ Reply(c, Msg(c, "text", "stop"), "stop_ack")

\* lines 155-158: join_channel
control_join(c) ==
    /\ Ready(c) /\ endpoint[c] = "control"
    /\ Start(c, "join", NoIt, Msg(c, "text", "join_channel"))
    /\ UNCHANGED channels

\* any other text on the control endpoint falls through the elif chain
control_other(c, t) ==
    /\ Ready(c) /\ endpoint[c] = "control"
    /\ ~startswith_new_channel(t) /\ t \notin {"start", "stop", "join_channel"}
    /\ Drop(c, IF signal_dispatch(t) = "forward" THEN "signal" ELSE "other")
    /\ UNCHANGED channels

\* The write handler c awaits returns (ok) or raises; the handler goes on
\* to its next await.
send_done(c, ok) ==
    /\ pc[c] = "send"
    /\ IF ok \/ send_error(mode[c]) = "caught"
       THEN Run(c, mode[c], it[c], msg[c],
                [sent[c] EXCEPT ![Len(sent[c])].st = IF ok THEN "ok" ELSE "fail"])
       ELSE Leave(c, "error", "Exception")
    /\ UNCHANGED channels

\* receive() ends the loop: a disconnect message followed by the
\* RuntimeError of the next receive ("break", lines 89-91 and 127-129), or
\* WebSocketDisconnect.
receive_closed(c, how) ==
    /\ pc[c] = "recv"
    /\ Leave(c, how, "RuntimeError")
    /\ UNCHANGED channels

Next ==
    \/ \E c \in Conns, ch \in Paths, ep \in {"audio", "control"} : Connect(c, ch, ep)
    \/ \E c \in Conns, f \in Frames : endpoint_bytes(c, f)
    \/ \E c \in Conns, t \in SignalTexts : endpoint_text(c, t)
    \/ \E c \in Conns, f \in Frames : control_bytes(c, f)
    \/ \E c \in Conns, t \in ControlTexts : control_new_channel(c, t)
    \/ \E c \in Conns : control_start(c)
    \/ \E c \in Conns : control_stop(c)
    \/ \E c \in Conns : control_join(c)
    \/ \E c \in Conns, t \in ControlTexts : control_other(c, t)
    \/ \E c \in Conns, ok \in BOOLEAN : send_done(c, ok)
    \/ \E c \in Conns, how \in {"break", "WebSocketDisconnect"} : receive_closed(c, how)

Spec == Init /\ [][Next]_vars

\* The transport of connection c closes (the peer goes away) while its
\* handler is suspended in a write: no further message arrives, and the
\* next receive() ends the loop.  (A close while the handler is suspended
\* in receive() is receive_closed.)
transport_close(c) ==
    /\ pc[c] = "send" /\ transport[c] = "open"
    /\ transport' = [transport EXCEPT ![c] = "closed"]
    /\ NoEvent
    /\ UNCHANGED <<active_connections, channel_senders, channels, pc, channel,
                   endpoint, mode, it, msg, sent, stable, acked, detached>>

\* receive() of handler c, whose transport has closed, ends the loop.
receive_after_close(c) ==
    transport[c] = "closed" /\ \E how \in {"break", "WebSocketDisconnect"} : receive_closed(c, how)

\* How many connections attach, and one input of each kind the handlers
\* tell apart.
LiveConns == 2
LiveFrames == {"f1"}
LiveSignalTexts == {"{\"type\":\"offer\"}", "5", "start"}
LiveControlTexts == {"new_channel:jazz", "new_channel:Default", "hello"}

LiveNext ==
    \/ \E c \in 1..LiveConns, ch \in Paths, ep \in {"audio", "control"} : Connect(c, ch, ep)
    \/ \E c \in Conns, f \in LiveFrames : endpoint_bytes(c, f)
    \/ \E c \in Conns, t \in LiveSignalTexts : endpoint_text(c, t)
    \/ \E c \in Conns, f \in LiveFrames : control_bytes(c, f)
    \/ \E c \in Conns, t \in LiveControlTexts : control_new_channel(c, t)
    \/ \E c \in Conns : control_start(c)
    \/ \E c \in Conns : control_stop(c)
    \/ \E c \in Conns : control_join(c)
    \/ \E c \in Conns, t \in LiveControlTexts : control_other(c, t)
    \/ \E c \in Conns, ok \in BOOLEAN : send_done(c, ok)
    \/ \E c \in Conns, how \in {"break", "WebSocketDisconnect"} : receive_closed(c, how)
    \/ \E c \in Conns : transport_close(c)

\* The event loop resumes every handler whose awaited operation has
\* completed; every write completes or raises.
Fairness ==
    \A c \in Conns :
        /\ WF_vars(\E ok \in BOOLEAN : send_done(c, ok))
        /\ WF_vars(receive_after_close(c))

LiveSpec == Init /\ [][LiveNext]_vars /\ Fairness


\* ------------------------------------------------------------ claims
Holds(c) ==
    /\ channel[c] \in DOMAIN channel_senders
    /\ channel_senders[channel[c]] = c

Attached(c) == pc[c] \in {"recv", "send"}

Members(ch) == IF HasKey(active_connections, ch) THEN Get(active_connections, ch) ELSE <<>>

\* the recipients of the writes s, in order
Targets(s) == [i \in DOMAIN s |-> s[i].to]

\* the elements of lst other than c, in order
Others(lst, c) == SelectSeq(lst, LAMBDA x : x # c)

\* C1: at most one connection per channel is in the state "answered
\* start_ack and neither stopped nor detached since", and that connection
\* is the one the sender table names for the channel.
C1_OneSenderPerChannel ==
    /\ \A a \in Conns : acked[a] => Attached(a) /\ Holds(a)
    /\ \A a, b \in Conns : (a # b /\ acked[a] /\ acked[b]) => channel[a] # channel[b]

\* a second connection of the channel is being answered busy
C1_Witness ==
    \E a, b \in Conns :
        /\ a # b /\ acked[a] /\ channel[a] = channel[b]
        /\ pc[b] = "send" /\ mode[b] = "reply" /\ msg[b].data = "start"
        /\ sent[b][1].data = "busy"

\* C2: whenever a channel's sender slot is occupied, its holder is in the
\* channel's list in active_connections.
C2_SenderIsMember ==
    \A ch \in DOMAIN channel_senders :
        /\ HasKey(active_connections, ch)
        /\ channel_senders[ch] \in Elems(Get(active_connections, ch))

\* the holder has just left through the double cleanup, which raised
C2_Witness == raised = "ValueError" /\ freed # NoKey

\* C3: a start received by the connection that already holds the slot is
\* answered start_ack and the slot still holds it.
C3_ReacquireAcked ==
    \A c \in Conns :
        (pc[c] = "send" /\ mode[c] = "reply" /\ msg[c].data = "start" /\ msg[c].held)
            => (sent[c][1].data = "start_ack" /\ Holds(c))

\* C4: a holder that leaves the registry frees the slot in that step, a
\* start received while the slot is free is answered start_ack, and the
\* sender table never names a connection whose handler has ended.
C4_ImplicitRelease ==
    /\ [](\A ch \in DOMAIN channel_senders : pc[channel_senders[ch]] # "closed")
    /\ [][\A c \in Conns :
            /\ (Holds(c) /\ pc'[c] = "closed")
                 => (channel[c] \notin DOMAIN channel_senders' /\ freed' = channel[c])
            /\ (pc[c] = "recv" /\ mode'[c] = "reply" /\ msg'[c].data = "start"
                /\ channel[c] \notin DOMAIN channel_senders)
                 => sent'[c][1].data = "start_ack"]_vars

\* the holder has just left without stop, another control connection of
\* the channel is attached and the slot is free
C4_Witness ==
    /\ freed # NoKey /\ freed \notin DOMAIN channel_senders
    /\ \E b \in Conns : pc[b] = "recv" /\ endpoint[b] = "control" /\ channel[b] = freed

\* C5: every handler that has ended was removed from the registry by
\* exactly one disconnect call, and no cleanup raised.
C5_CleanupExactlyOnce ==
    /\ \A c \in Conns : pc[c] = "closed" => detached[c] = 1
    /\ raised # "ValueError"


\* C6: no key of active_connections maps to an empty list; once no
\* connection is attached, active_connections and channel_senders are
\* empty as they were initially; and a step that attaches or detaches a
\* connection leaves the channel directory unchanged.
C6_NoEmptyChannel ==
    /\ [](/\ \A i \in DOMAIN active_connections : active_connections[i].v # <<>>
          /\ (\A c \in Conns : ~Attached(c))
                => (active_connections = <<>> /\ channel_senders = EmptyMap))
    /\ [][(\E c \in Conns : Attached(c) # (pc'[c] \in {"recv", "send"}))
            => channels' = channels]_vars

\* every connection has attached and detached, on more than one channel
C6_Witness ==
    /\ \A c \in Conns : pc[c] = "closed" /\ detached[c] = 1
    /\ active_connections = <<>>

\* C7: every binary write a handler has begun carries the frame that
\* handler is processing, which it received while holding the sender slot
\* of its channel and holds still; a step that drops a frame of a
\* non-holder begins no write and changes nothing of the registry, the
\* sender table or the handlers.
C7_RelayOnlyFromSender ==
    /\ [](\A c \in Conns : \A i \in DOMAIN sent[c] :
            sent[c][i].kind = "bytes" =>
                /\ msg[c].kind = "bytes" /\ msg[c].held /\ Holds(c)
                /\ sent[c][i].data = msg[c].data)
    /\ [][ignored'.what = "frame" =>
            UNCHANGED <<active_connections, channel_senders, channels, pc, channel,
                        endpoint, mode, it, msg, sent, stable, acked, detached,
                        transport>>]_vars

\* a frame of a non-holder has just been dropped while another connection
\* holds a sender slot
C7_Witness ==
    /\ ignored.what = "frame"
    /\ \E c \in Conns : c # ignored.by /\ Holds(c) /\ channel[c] = channel[ignored.by]
    /\ \A c \in Conns : sent[c] = <<>>

\* C8: a relay never begins a write to its originator, nor to a connection
\* outside the originator's channel, and every write carries the frame;
\* a relay that ends in a channel of two members whose membership did not
\* change has made exactly one write, to the other member, of that frame.
C8_NoEcho ==
    [][\A c \in Conns :
         /\ (pc'[c] = "send" /\ mode'[c] = "broadcast" /\ Len(sent'[c]) > Len(sent[c]))
              => LET w == sent'[c][Len(sent'[c])] IN
                 /\ w.to # c
                 /\ w.to \in Elems(Members(channel[c]))
                 /\ channel[w.to] = channel[c]
                 /\ w.kind = "bytes" /\ w.data = msg'[c].data
         /\ (pc[c] = "send" /\ mode[c] = "broadcast" /\ pc'[c] = "recv" /\ stable[c]
             /\ Len(Members(channel[c])) = 2)
              => /\ Len(sent[c]) = 1
                 /\ sent[c][1].to # c
                 /\ sent[c][1].data = msg[c].data]_vars

\* A relays in a channel of two members while a third connection is
\* attached to another channel
C8_Witness ==
    \E a, x \in Conns :
        /\ pc[a] = "send" /\ mode[a] = "broadcast"
        /\ Len(Members(channel[a])) = 2 /\ Len(sent[a]) = 1
        /\ Attached(x) /\ channel[x] # channel[a]

C10_SignalingForwarded ==
    /\ ignored.what = "signal" => Len(Members(channel[ignored.by])) = 1
    /\ \A c \in Conns : mode[c] = "forward" =>
          \A i \in DOMAIN sent[c] : sent[c][i].to # c /\ sent[c][i].data = msg[c].data

\* how many of the writes s go to connection x
Writes(s, x) == Cardinality({i \in DOMAIN s : s[i].to = x})

\* C11: a new_channel request for a name not in the directory adds the
\* name, and when the announcement it starts has ended, every connection
\* that was attached when it started and is attached still has been
\* written new_channel:<name> exactly once, whatever attached or detached
\* meanwhile.
C11_AnnouncedToAll ==
    [][\A c \in Conns :
         /\ (pc[c] = "recv" /\ mode'[c] = "announce")
              => /\ split_new_channel(msg'[c].data) \notin channels
                 /\ split_new_channel(msg'[c].data) \in channels'
         /\ (pc[c] = "send" /\ mode[c] = "announce" /\ pc'[c] # "send")
              => \A x \in msg[c].snap :
                    pc'[x] # "closed" =>
                        /\ Writes(sent[c], x) = 1
                        /\ \A i \in DOMAIN sent[c] :
                              sent[c][i].data = msg[c].data]_vars

\* C12: an announcement starts only for a name that was not in the
\* directory, which then holds it for good (directory entries are never
\* removed), so no name is announced twice; a request for a name already
\* in the directory leaves the directory, the registry, the sender table
\* and every handler's writes as they were and its requester attached and
\* back at receive.
C12_AnnouncedOnce ==
    /\ [][channels \subseteq channels']_vars
    /\ [][\A c \in Conns :
            (pc[c] = "recv" /\ pc'[c] = "send" /\ mode'[c] = "announce")
                => split_new_channel(msg'[c].data) \in channels' \ channels]_vars
    /\ [][ignored'.what = "duplicate" =>
            /\ UNCHANGED <<channels, active_connections, channel_senders, sent, pc>>
            /\ pc'[ignored'.by] = "recv"
            /\ ignored'.by \in Elems(Members(channel[ignored'.by]))]_vars

\* a request for a name already in the directory has just been dropped
\* while the announcement of jazz by another connection is still being sent
C12_Witness ==
    /\ ignored.what = "duplicate" /\ "jazz" \in channels
    /\ \E a \in Conns : a # ignored.by /\ pc[a] = "send" /\ mode[a] = "announce"

\* C13: a stop is answered stop_ack; if its sender holds the slot of its
\* channel the slot is cleared and the rest of the sender table is left as
\* it was, and otherwise (another connection holds it, or it is free) the
\* sender table is left exactly as it was.
C13_StopReleasesOwnSlot ==
    [][\A c \in Conns :
         (pc[c] = "recv" /\ pc'[c] = "send" /\ mode'[c] = "reply"
          /\ msg'[c].data = "stop")
            => /\ sent'[c] = <<[to |-> c, kind |-> "text", data |-> "stop_ack",
                                st |-> "inflight"]>>
               /\ (Holds(c) => channel_senders' = Pop(channel_senders, channel[c]))
               /\ (~Holds(c) => channel_senders' = channel_senders)
               /\ active_connections' = active_connections]_vars

\* a connection that does not hold the slot is being answered stop_ack
\* while another connection of its channel holds the slot
C13_Witness ==
    \E a, b \in Conns :
        /\ a # b /\ channel[a] = channel[b] /\ Holds(a)
        /\ pc[b] = "send" /\ mode[b] = "reply" /\ msg[b].data = "stop"
        /\ ~msg[b].held /\ sent[b][1].data = "stop_ack"

\* C14: a text on the signaling path that is not a signaling message never
\* ends its sender's handler: no step raises TypeError out of a handler,
\* and the step that drops such a text leaves its sender attached and
\* back at receive with no write begun.
C14_MalformedDropped ==
    /\ raised # "TypeError"
    /\ ignored.what = "text" =>
          /\ pc[ignored.by] = "recv" /\ sent[ignored.by] = <<>>
          /\ ignored.by \in Elems(Members(channel[ignored.by]))

\* C15: when a relay, a signaling forward or a peer_joined notification
\* ends, every connection that was a member of the channel other than the
\* originator when it started, and is attached still, has been the target
\* of exactly one of its writes, whatever attached or detached meanwhile.
C15_SnapshotFanOut ==
    [][\A c \in Conns :
         (pc[c] = "send" /\ mode[c] \in {"broadcast", "forward", "join"}
          /\ pc'[c] # "send")
            => \A x \in msg[c].snap :
                  pc'[x] # "closed" => Writes(sent[c], x) = 1]_vars

\* the write handler c is suspended in
InFlight(c) == sent[c][Len(sent[c])]

\* C16: no two handlers are suspended in a write to the same connection.
C16_OneWriteInFlight ==
    \A a, b \in Conns :
        (a # b /\ pc[a] = "send" /\ pc[b] = "send") => InFlight(a).to # InFlight(b).to

\* Handler c begins its next write or returns to receive in a step that is
\* not the completion (return or exception) of the write it awaits.
GoesOnWithoutCompletion(c) ==
    /\ Next
    /\ ~(\E ok \in BOOLEAN : send_done(c, ok))
    /\ (pc'[c] = "recv" \/ Len(sent'[c]) > Len(sent[c]))

\* C17: a handler relaying a frame can always go on, to the next member or
\* back to receive, without the write it has begun having completed.
C17_RelayNeverBlocks ==
    \A c \in Conns :
        (pc[c] = "send" /\ mode[c] = "broadcast") => ENABLED GoesOnWithoutCompletion(c)

\* connection c is in no list of the registry and holds no sender slot
Detached(c) ==
    /\ \A i \in DOMAIN active_connections : c \notin Elems(active_connections[i].v)
    /\ \A ch \in DOMAIN channel_senders : channel_senders[ch] # c

\* C18: once the transport of an attached connection has closed, by the
\* peer or because its handler left the loop through an error, its handler
\* eventually ends and the connection is then in no list of the registry
\* and in no sender slot.
C18_EventuallyDetached ==
    \A c \in Conns :
        (transport[c] = "closed") ~> (pc[c] = "closed" /\ Detached(c))

\* the transport of the holder of a slot has closed while its handler is
\* suspended in a relay to another member
C18_Witness ==
    \E c \in Conns :
        /\ transport[c] = "closed" /\ pc[c] = "send" /\ mode[c] = "broadcast"
        /\ Holds(c) /\ Len(Members(channel[c])) = 2

\* C19: a handler suspended in a relay, a signaling forward, a peer_joined
\* notification or a new_channel announcement is still attached after
\* every step, of its own or of another handler, and no such step raises an
\* error out of it.
C19_EndsOnlyByOwnClose ==
    [][\A c \in Conns :
         (pc[c] = "send" /\ mode[c] \in {"broadcast", "forward", "join", "announce"})
            => /\ pc'[c] \in {"send", "recv"}
               /\ c \in Elems(Get(active_connections', channel[c]))
               /\ raised' # "RuntimeError"]_vars

\* C20: a connection attached through /ws/{channel} never holds a sender
\* slot, is never answered start_ack, and its handler never relays: it is
\* never in the broadcast loop and has begun no binary write.
C20_AudioNeverHolds ==
    \A c \in Conns :
        endpoint[c] = "audio" =>
            /\ ~Holds(c) /\ ~acked[c]
            /\ mode[c] # "broadcast"
            /\ \A i \in DOMAIN sent[c] : sent[c][i].kind # "bytes"

\* a control-endpoint talker's frame is being written to a member attached
\* through the audio endpoint, whose own frame has just been dropped
C20_Witness ==
    \E a, x \in Conns :
        /\ endpoint[a] = "control" /\ endpoint[x] = "audio" /\ channel[a] = channel[x]
        /\ pc[a] = "send" /\ mode[a] = "broadcast" /\ Holds(a)
        /\ x \in Elems(Members(channel[a]))
        /\ InFlight(a).to = x /\ InFlight(a).kind = "bytes"
        /\ ignored = [what |-> "frame", by |-> x]

====
